---- MODULE Spec2Model ----
(***************************************************************************)
(* Model of the ADB session wrapper of src/adb_manager.py (class           *)
(* ADBManager): the construction of a session (find_adb), execute_command, *)
(* the device-wait poll wait_for_device, and the facade operations built   *)
(* on them (get_device_info, reboot_device, is_device_rooted, push_file,   *)
(* shell_command).  Spec runs the construction and then any sequence of    *)
(* calls of these operations.                                              *)
(*                                                                         *)
(* Python's synchronous call stack is the variable `stack`; every frame    *)
(* carries the program point it is at.  subprocess.run is split into the   *)
(* spawn of the child, and its completion or the expiry of the timeout, so *)
(* that "a child is running" is a state of the model.  Text (stdout,       *)
(* stderr, messages) is a sequence of one-character strings, so that       *)
(* str.strip() and the substring test of wait_for_device are computed on   *)
(* characters as the code computes them.                                   *)
(***************************************************************************)
EXTENDS Integers, Sequences, FiniteSets, TLC

VARIABLES
    adb_path,     \* self.adb_path: None or the resolved candidate
    timeout,      \* self.timeout
    stack,        \* the call stack, innermost frame last
    retval,       \* value returned by the frame that returned last
    exc,          \* exception in flight; with an empty stack: the one that escaped
    running,      \* child processes that are running
    printed,      \* the current call wrote to standard output
    op,           \* history: the facade call in progress or finished last
    cmdRuns,      \* history: subprocess.run calls for the command the caller requested
    polls,        \* history: device-list polls issued by the wait_for_device
                  \* that started last
    tested,       \* history: its poll results tested at line 100
    sleeps,       \* history: its time.sleep(1) calls
    wfd_ret,      \* history: what it returned ("none" before)
    lastReady,    \* history: the last poll's device list had a ready device
    readyBefore,  \* history: an earlier poll's device list had a ready device
    probed,       \* history: the candidates find_adb probed, and how each probe went
    invoked,      \* history: the commands the current call asked for, as given to
                  \* subprocess.run (the polls of wait_for_device are counted in polls)
    args,         \* the arguments of the facade call in progress or finished last
    info,         \* the dictionary get_device_info builds
    grace,        \* history: time.sleep(5) calls of reboot_device
    good,         \* history: what the property queries that succeeded printed
    signals,      \* history: the root checks whose child reported root
    last,         \* history: the result execute_command gave reboot_device,
                  \* push_file, pull_file or shell_command
    tool,         \* the bypass tool whose attempt_bypass runs or ran last
    bpc,          \* its position in attempt_bypass
    file,         \* PatternBypass._check_lock_type: index of the file in the loop
    result,       \* _check_lock_type: what execute_command returned last
    lock_type,    \* attempt_bypass: the local lock_type
    tried,        \* history: the methods the call invoked, with what each gave
    bret,         \* what attempt_bypass returned
    warning_shown,\* FactoryResetTool.warning_shown
    rpc,          \* position in perform_reset
    method,       \* perform_reset: the argument method
    typed,        \* history: what the user typed at the warning of this call
    cancelled,    \* history: this call printed "Reset cancelled."
    ran,          \* history: the reset method this call ran
    confirmed,    \* history: a warning of this tool got both phrases
    rret,         \* what perform_reset returned
    heap,         \* the dictionaries of ConfigManager, by identity
    default_config, \* ConfigManager.default_config: a dictionary of the heap
    config,       \* ConfigManager.config: a dictionary of the heap
    cpc,          \* the ConfigManager operation that ran last
    cret          \* what it returned

vars == <<adb_path, timeout, stack, retval, exc, running, printed, op,
          cmdRuns, polls, tested, sleeps, wfd_ret, lastReady, readyBefore,
          probed, invoked, args, info, grace, good, signals, last,
          tool, bpc, file, result, lock_type, tried, bret,
          warning_shown, rpc, method, typed, cancelled, ran, confirmed, rret,
          heap, default_config, config, cpc, cret>>

-----------------------------------------------------------------------------
(* Bounds of the model *)

\* largest max_attempts a caller passes to wait_for_device explicitly
MaxAttemptsArg == 3
\* largest number of lines in a device list
MaxDevices == 2
\* deepest call stack: execute_command > wait_for_device > execute_command
MaxDepth == 3

-----------------------------------------------------------------------------
(* Text *)

NL == "\n"
TAB == "\t"

\* the characters str.strip() removes, among those the model uses
Whitespace == {" ", NL, TAB, "\r"}

RECURSIVE LStrip(_)
LStrip(s) == IF s # << >> /\ Head(s) \in Whitespace THEN LStrip(Tail(s)) ELSE s

RECURSIVE RStrip(_)
RStrip(s) ==
    IF s # << >> /\ s[Len(s)] \in Whitespace
    THEN RStrip(SubSeq(s, 1, Len(s) - 1))
    ELSE s

\* str.strip()
Strip(s) == RStrip(LStrip(s))

\* sub in s
Contains(sub, s) ==
    \E k \in 1..(Len(s) - Len(sub) + 1) : SubSeq(s, k, k + Len(sub) - 1) = sub

\* 'device\n', the literal of line 100
DeviceNL == <<"d", "e", "v", "i", "c", "e", NL>>

\* 'Command timed out', the literal of line 83
TimedOutMsg ==
    <<"C", "o", "m", "m", "a", "n", "d", " ", "t", "i", "m", "e", "d", " ", "o", "u", "t">>

\* 'ADB not found', the message of line 58
NotFoundMsg == <<"A", "D", "B", " ", "n", "o", "t", " ", "f", "o", "u", "n", "d">>

-----------------------------------------------------------------------------
(* The external tool, as the session sees it *)

None == "None"

\* possible_paths of find_adb; the home directory is written ~
PossiblePaths ==
    << "adb",
       "/usr/bin/adb",
       "/usr/local/bin/adb",
       "C:\\Android\\platform-tools\\adb.exe",
       "~/AppData/Local/Android/Sdk/platform-tools/adb.exe",
       "~/Library/Android/sdk/platform-tools/adb" >>

\* what find_adb can return
AdbPathValues == {None} \cup {PossiblePaths[k] : k \in DOMAIN PossiblePaths}

\* the states `adb devices` prints after a serial
StDevice == <<"d", "e", "v", "i", "c", "e">>
StOffline == <<"o", "f", "f", "l", "i", "n", "e">>
StUnauthorized ==
    <<"u", "n", "a", "u", "t", "h", "o", "r", "i", "z", "e", "d">>
DeviceStates == {StDevice, StOffline, StUnauthorized}

\* the first line of the output of `adb devices`
ListHeader ==
    <<"L", "i", "s", "t", " ", "o", "f", " ", "d", "e", "v", "i", "c", "e", "s",
      " ", "a", "t", "t", "a", "c", "h", "e", "d">>

\* the serial of the k-th attached device
Serial(k) == <<"S", <<"1", "2", "3", "4", "5">>[k]>>

\* device lists: the state of each attached device, in the order printed
DevLists == UNION {[1..n -> DeviceStates] : n \in 0..MaxDevices}

RECURSIVE DeviceLines(_, _)
DeviceLines(devs, k) ==
    IF k > Len(devs) THEN << >>
    ELSE Serial(k) \o <<TAB>> \o devs[k] \o <<NL>> \o DeviceLines(devs, k + 1)

\* stdout of `adb devices`: header, one line per device, an empty line
DevicesStdout(devs) == ListHeader \o <<NL>> \o DeviceLines(devs, 1) \o <<NL>>

\* the device list has a device in the ready ("device") state
HasReady(devs) == \E k \in DOMAIN devs : devs[k] = StDevice

\* exit codes of a child: success, failures, death by signal
ExitCodes == {0, 1, 255, -1}

TxtOk == <<"o", "k", NL>>
TxtPadded == <<" ", "a", " ", "b", NL, NL>>
TxtErr == <<"e", "r", "r", "o", "r", NL>>

\* the argument lists the callers pass; all of them are lists of strings
Commands ==
    { <<"devices">>,
      <<"shell", "getprop", "ro.product.model">>,
      <<"reboot">> }

\* 'root_check', the marker of lines 161 and 163
RootCheck == <<"r", "o", "o", "t", "_", "c", "h", "e", "c", "k">>

\* '/su', the literal of line 168
SlashSu == <<"/", "s", "u">>

\* the argument lists of lines 161 and 167
SuEcho == <<"shell", "su", "-c", "echo root_check">>
WhichSu == <<"shell", "which", "su">>

\* what `which su` prints when the device has the binary
SuLocation ==
    <<"/", "s", "y", "s", "t", "e", "m", "/", "x", "b", "i", "n", "/", "s", "u", NL>>

\* the command is a property query: shell getprop <property>
IsGetprop(cmd) == Len(cmd) = 3 /\ cmd[1] = "shell" /\ cmd[2] = "getprop"

\* what getprop prints for a property that is set: the value, written as the
\* property's name and a mark, between whitespace
PropStdout(cmd) == <<" ", cmd[3], " ", "=", NL, NL>>

\* how a child that completes can complete: exit code, stdout, stderr; devs is
\* the device list it saw, sig whether it found root access
Completions(cmd) ==
    IF cmd = <<"devices">>
    THEN {[rc |-> 0, out |-> DevicesStdout(d), err |-> << >>, devs |-> d,
           sig |-> FALSE] : d \in DevLists}
         \cup {[rc |-> 1, out |-> << >>, err |-> TxtErr, devs |-> << >>,
                sig |-> FALSE]}
    ELSE IF IsGetprop(cmd)
    THEN {[rc |-> c, out |-> o, err |-> << >>, devs |-> << >>, sig |-> FALSE] :
              c \in {0, 1}, o \in {<< >>, <<NL>>, PropStdout(cmd)}}
    ELSE IF Len(cmd) = 4 /\ cmd[2] = "su"
    THEN {[rc |-> c, out |-> o, err |-> << >>, devs |-> << >>,
           sig |-> (c = 0 /\ o # << >>)] :
              c \in ExitCodes, o \in {<< >>, RootCheck \o <<NL>>}}
    ELSE IF Len(cmd) = 3 /\ cmd[2] = "which"
    THEN {[rc |-> c, out |-> o, err |-> << >>, devs |-> << >>,
           sig |-> (c = 0 /\ o # << >>)] :
              c \in ExitCodes, o \in {<< >>, SuLocation}}
    ELSE {[rc |-> c, out |-> o, err |-> e, devs |-> << >>, sig |-> FALSE] :
              c \in ExitCodes, o \in {<< >>, TxtOk, TxtPadded}, e \in {<< >>, TxtErr}}

\* exceptions subprocess.run raises when the child cannot be started
SpawnExceptions ==
    { [type |-> "FileNotFoundError", msg |-> <<"E", "2">>],
      [type |-> "PermissionError", msg |-> <<"E", "1", "3">>] }

TimeoutExpired == [type |-> "TimeoutExpired", msg |-> <<"T">>]

\* ADBNotFound with the message of the timeout handler
ADBNotFound_OtherMessage == [type |-> "Exception", msg |-> TimedOutMsg]

\* Exception("ADB not found"), line 58
ADBNotFound == [type |-> "Exception", msg |-> NotFoundMsg]
NoExc == [type |-> "none", msg |-> << >>]

\* str(e)
Str(e) == e.msg

\* str.split(): the words of a text, which is written here as its words and
\* the whitespace characters between them
Split(s) == SelectSeq(s, LAMBDA w : w \notin Whitespace)

\* 'shell getprop <property>', the command lines of lines 113-119
GetpropLine(property) == <<"shell", " ", "getprop", " ", property>>

\* commands of get_device_info, lines 112-120: (cmd, key) pairs
InfoCommands ==
    << <<GetpropLine("ro.product.model"), "Model">>,
       <<GetpropLine("ro.build.version.release"), "Android Version">>,
       <<GetpropLine("ro.build.version.security_patch"), "Security Patch">>,
       <<GetpropLine("ro.product.manufacturer"), "Manufacturer">>,
       <<GetpropLine("ro.serialno"), "Serial Number">>,
       <<GetpropLine("ro.bootloader"), "Bootloader">>,
       <<GetpropLine("ro.hardware"), "Hardware">> >>

\* the key get_device_info reports a property under
KeyOf(property) ==
    (CHOOSE q \in {InfoCommands[k] : k \in DOMAIN InfoCommands} :
        q[1][Len(q[1])] = property)[2]

\* Modes with fastboot given a target of its own
Modes_FastbootOwnTarget ==
    ("system" :> "") @@ ("recovery" :> "recovery") @@
    ("bootloader" :> "bootloader") @@ ("fastboot" :> "fastboot") @@
    ("download" :> "download") @@ ("sideload" :> "sideload")

\* modes of reboot_device, lines 133-140: mode -> target of `adb reboot`
Modes ==
    ("system" :> "") @@ ("recovery" :> "recovery") @@
    ("bootloader" :> "bootloader") @@ ("fastboot" :> "bootloader") @@
    ("download" :> "download") @@ ("sideload" :> "sideload")

\* a mode that is not in the table
NotAMode == "not-a-real-mode"

\* os.path.exists: the local files that exist, and a path that does not
LocalFiles == {"/sdcard/locksettings.db"}
MissingFile == "/nowhere/locksettings.db"

\* the path push_file writes to on the device
DevicePath == "/data/system/locksettings.db"

\* command strings given to shell_command: a plain one, and one with spaces
\* and double quotes in it
ShellTexts ==
    { <<"i", "d">>,
      <<"e", "c", "h", "o", " ", "\"", "a", " ", "b", "\"">> }

\* f'su -c "{command}"', line 199
SuWrap(text) ==
    <<"s", "u", " ", "-", "c", " ", "\"">> \o text \o <<"\"">>

-----------------------------------------------------------------------------
(* Results and frames *)

\* CompletedResult with the success flag taken from the sign of the exit code
CompletedResult_SignOnly(rc, out, err) ==
    [success |-> (rc >= 0), output |-> Strip(out), error |-> Strip(err),
     returncode |-> rc]

\* the dictionary of lines 73-78
CompletedResult(rc, out, err) ==
    [success |-> (rc = 0), output |-> Strip(out), error |-> Strip(err),
     returncode |-> rc]

\* the dictionary of lines 80-85
TimeoutResult ==
    [success |-> FALSE, output |-> << >>, error |-> TimedOutMsg, returncode |-> -1]

\* the dictionary of lines 87-92
ErrorResult(e) ==
    [success |-> FALSE, output |-> << >>, error |-> Str(e), returncode |-> -1]

\* ExceptHandler without the clause for TimeoutExpired
ExceptHandler_NoTimeoutClause(e) == ErrorResult(e)

\* the except clauses of execute_command, lines 79-92
ExceptHandler(e) ==
    IF e.type = "TimeoutExpired" THEN TimeoutResult ELSE ErrorResult(e)

NoRet == [kind |-> "none"]
RetResult(r) == [kind |-> "result", res |-> r]
RetBool(b) == [kind |-> "bool", b |-> b]

\* a call of execute_command(command, wait_for_device)
ExecFrame(cmd, wfd) ==
    [fn |-> "execute_command", pc |-> "check", command |-> cmd,
     wait |-> wfd, max_attempts |-> 0, i |-> 0]

\* a call of wait_for_device(max_attempts)
WfdFrame(m) ==
    [fn |-> "wait_for_device", pc |-> "start", command |-> << >>,
     wait |-> FALSE, max_attempts |-> m, i |-> 0]

\* max_attempts=30, the default of line 94
DefaultMaxAttempts == 30

\* PollFrame with the poll itself waiting for a device
PollFrame_Gated == ExecFrame(<<"devices">>, TRUE)

\* self.execute_command(['devices']) of line 99
PollFrame == ExecFrame(<<"devices">>, FALSE)

\* full_command of line 60
FullCommand(f) == <<adb_path>> \o f.command

\* InTry with subprocess.run called before the try is entered
InTry_RunOutside(f) ==
    f.fn = "execute_command" /\ f.pc \in {"waiting", "communicate"}

\* the try block of execute_command spans lines 62-78
InTry(f) ==
    f.fn = "execute_command" /\ f.pc \in {"waiting", "run", "communicate"}

\* LoopContinues with one iteration too many
LoopContinues_OffByOne(f) == f.i <= f.max_attempts

\* for i in range(max_attempts), line 98
LoopContinues(f) == f.i < f.max_attempts

Top == stack[Len(stack)]
Pop == SubSeq(stack, 1, Len(stack) - 1)
At(name, point) ==
    /\ stack # << >>
    /\ exc = NoExc
    /\ Top.fn = name
    /\ Top.pc = point
Goto(point) == [stack EXCEPT ![Len(stack)].pc = point]

\* the frame on top runs the poll of a wait_for_device
IsPoll == Len(stack) >= 2 /\ stack[Len(stack) - 1].fn = "wait_for_device"

\* the frame on top runs the command the caller of the session asked for
IsRequested == Len(stack) = 1

\* the frame on top runs the command of a facade operation that runs one
IsDelegated ==
    /\ Len(stack) = 2
    /\ stack[1].fn \in {"reboot_device", "push_file", "pull_file", "shell_command"}

\* the child of the frame on top: the poll's number for a poll, below -100
\* for the probe of a candidate, else minus the number of the command among
\* those the current call asked for
Pid ==
    IF IsPoll THEN polls
    ELSE IF Top.fn = "_check_adb_path" THEN -101 - Len(probed)
    ELSE -Len(invoked)

\* the child subprocess.run is about to start for the frame on top
NewPid == IF Top.fn = "execute_command" /\ ~IsPoll THEN Pid - 1 ELSE Pid

\* Reaped with the child left behind when subprocess.run returns
Reaped_Not == running

\* subprocess.run returns or raises TimeoutExpired only after the child has
\* exited or was killed, and has been waited for
Reaped == running \ {Pid}

\* the arguments of a facade call; an operation reads those of its signature
NoArgs ==
    [command |-> << >>, mode |-> "system", device_id |-> None,
     local_path |-> "", device_path |-> "", root |-> FALSE]

\* the variables of the facade operations
facade == <<args, info, grace, good, signals, last>>

hist == <<op, cmdRuns, polls, tested, sleeps, wfd_ret, lastReady, readyBefore,
          probed, invoked, facade>>

\* the variables of the session, and those of the tools built on it
session_vars == <<adb_path, timeout, stack, retval, exc, running, printed, hist>>
bypass == <<tool, bpc, file, result, lock_type, tried, bret>>
reset == <<warning_shown, rpc, method, typed, cancelled, ran, confirmed, rret>>
manager == <<heap, default_config, config, cpc, cret>>
tools == <<bypass, reset, manager>>

-----------------------------------------------------------------------------
(* Initial state: __init__ calls find_adb at line 13; no attribute is set yet *)

\* a call of find_adb(); i counts the candidates that were probed
FindFrame ==
    [fn |-> "find_adb", pc |-> "loop", command |-> << >>,
     wait |-> FALSE, max_attempts |-> 0, i |-> 0]

\* no attempt_bypass was called
NoBypass ==
    /\ tool = "none"
    /\ bpc = "idle"
    /\ file = 0
    /\ result = NoRet
    /\ lock_type = "none"
    /\ tried = << >>
    /\ bret = "none"

\* FactoryResetTool.__init__, lines 11-13; no perform_reset was called
NoReset ==
    /\ warning_shown = FALSE
    /\ rpc = "idle"
    /\ method = "none"
    /\ typed = << >>
    /\ cancelled = FALSE
    /\ ran = "none"
    /\ confirmed = FALSE
    /\ rret = "none"

\* no ConfigManager was constructed
NoManager ==
    /\ heap = << >>
    /\ default_config = 0
    /\ config = 0
    /\ cpc = "new"
    /\ cret = "none"

Init ==
    /\ adb_path = None
    /\ timeout = 0
    /\ stack = <<FindFrame>>
    /\ retval = NoRet
    /\ exc = NoExc
    /\ running = {}
    /\ printed = FALSE
    /\ op = [fn |-> "none", command |-> << >>, wait |-> FALSE, max_attempts |-> 0]
    /\ cmdRuns = 0
    /\ polls = 0
    /\ tested = 0
    /\ sleeps = 0
    /\ wfd_ret = "none"
    /\ lastReady = FALSE
    /\ readyBefore = FALSE
    /\ probed = << >>
    /\ invoked = << >>
    /\ args = NoArgs
    /\ info = << >>
    /\ grace = 0
    /\ good = << >>
    /\ signals = {}
    /\ last = NoRet
    /\ NoBypass
    /\ NoReset
    /\ NoManager

\* __init__ has run to its end: line 15 has set the timeout
Constructed == timeout # 0

\* a caller enters the session: the history of the previous call is dropped
Enter(f, o, a) ==
    /\ Constructed
    /\ stack = << >>
    /\ stack' = <<f>>
    /\ retval' = NoRet
    /\ exc' = NoExc
    /\ printed' = FALSE
    /\ op' = o
    /\ cmdRuns' = 0
    /\ polls' = 0
    /\ tested' = 0
    /\ sleeps' = 0
    /\ wfd_ret' = "none"
    /\ lastReady' = FALSE
    /\ readyBefore' = FALSE
    /\ invoked' = << >>
    /\ args' = a
    /\ info' = << >>
    /\ grace' = 0
    /\ good' = << >>
    /\ signals' = {}
    /\ last' = NoRet
    /\ UNCHANGED <<adb_path, timeout, running, probed>>
    /\ UNCHANGED tools

\* a caller calls execute_command(command, wait_for_device)
CallExecuteCommand ==
    \E cmd \in Commands, wfd \in BOOLEAN :
        Enter(ExecFrame(cmd, wfd),
              [fn |-> "execute_command", command |-> cmd, wait |-> wfd,
               max_attempts |-> 0],
              NoArgs)

\* a caller calls wait_for_device(max_attempts)
CallWaitForDevice ==
    \E m \in 0..MaxAttemptsArg :
        Enter(WfdFrame(m),
              [fn |-> "wait_for_device", command |-> << >>, wait |-> FALSE,
               max_attempts |-> m],
              NoArgs)

-----------------------------------------------------------------------------
(* execute_command, lines 55-92 *)

\* ExecCheck without the test of line 57
ExecCheck_NoTest ==
    /\ At("execute_command", "check")
    /\ stack' = Goto("try")
    /\ UNCHANGED <<adb_path, timeout, retval, exc, running, printed, hist>>
    /\ UNCHANGED tools

\* lines 57-60: raise when no executable was resolved, else build full_command
ExecCheck ==
    /\ At("execute_command", "check")
    /\ IF adb_path = None
       THEN /\ exc' = ADBNotFound
            /\ stack' = stack
       ELSE /\ exc' = exc
            /\ stack' = Goto("try")
    /\ UNCHANGED <<adb_path, timeout, retval, running, printed, hist>>
    /\ UNCHANGED tools

\* lines 62-64: inside the try, call wait_for_device() when asked to
ExecTry ==
    /\ At("execute_command", "try")
    /\ IF Top.wait
       THEN /\ Len(stack) < MaxDepth
            /\ stack' = Append(Goto("waiting"), WfdFrame(DefaultMaxAttempts))
       ELSE stack' = Goto("run")
    /\ UNCHANGED <<adb_path, timeout, retval, exc, running, printed, hist>>
    /\ UNCHANGED tools

\* ExecAfterWait with the command gated on the wait: a failed wait returns a
\* failure without running the command
ExecAfterWait_Gated ==
    /\ At("execute_command", "waiting")
    /\ IF retval.b
       THEN /\ stack' = Goto("run")
            /\ retval' = NoRet
       ELSE /\ stack' = Pop
            /\ retval' = RetResult(ErrorResult(ADBNotFound))
    /\ UNCHANGED <<adb_path, timeout, exc, running, printed, hist>>
    /\ UNCHANGED tools

\* line 64 returns: the value of wait_for_device() is dropped
ExecAfterWait ==
    /\ At("execute_command", "waiting")
    /\ stack' = Goto("run")
    /\ retval' = NoRet
    /\ UNCHANGED <<adb_path, timeout, exc, running, printed, hist>>
    /\ UNCHANGED tools

\* line 66, subprocess.run fails to start the child: the exception is raised
\* at line 66, inside the try
ExecSpawnFails ==
    /\ At("execute_command", "run")
    /\ \E e \in SpawnExceptions : exc' = e
    /\ cmdRuns' = IF IsRequested THEN cmdRuns + 1 ELSE cmdRuns
    /\ invoked' = IF IsPoll THEN invoked ELSE Append(invoked, FullCommand(Top))
    /\ UNCHANGED <<adb_path, timeout, stack, retval, running, printed, op,
                   polls, tested, sleeps, wfd_ret, lastReady, readyBefore,
                   probed, facade>>
    /\ UNCHANGED tools

\* line 66, subprocess.run starts the child and blocks on it
ExecSpawn ==
    /\ At("execute_command", "run")
    /\ stack' = Goto("communicate")
    /\ running' = running \cup {NewPid}
    /\ cmdRuns' = IF IsRequested THEN cmdRuns + 1 ELSE cmdRuns
    /\ invoked' = IF IsPoll THEN invoked ELSE Append(invoked, FullCommand(Top))
    /\ UNCHANGED <<adb_path, timeout, retval, exc, printed, op, polls, tested,
                   sleeps, wfd_ret, lastReady, readyBefore, probed, facade>>
    /\ UNCHANGED tools

\* lines 66-78: the child exits within the timeout; its result is returned
ExecComplete ==
    /\ At("execute_command", "communicate")
    /\ \E c \in Completions(Top.command) :
          /\ retval' = RetResult(CompletedResult(c.rc, c.out, c.err))
          /\ lastReady' = IF IsPoll THEN HasReady(c.devs) ELSE lastReady
          /\ good' = IF IsGetprop(Top.command) /\ c.rc = 0 /\ Strip(c.out) # << >>
                      THEN (KeyOf(Top.command[3]) :> Strip(c.out)) @@ good
                      ELSE good
          /\ signals' = IF c.sig THEN signals \cup {Top.command[2]} ELSE signals
          /\ last' = IF IsDelegated
                      THEN RetResult(CompletedResult(c.rc, c.out, c.err))
                      ELSE last
    /\ running' = Reaped
    /\ stack' = Pop
    /\ UNCHANGED <<adb_path, timeout, exc, printed, op, cmdRuns, polls, tested,
                   sleeps, wfd_ret, readyBefore, probed, invoked, args, info,
                   grace>>
    /\ UNCHANGED tools

\* ExecTimeout with the child left running when the timeout expires
ExecTimeout_Abandon ==
    /\ At("execute_command", "communicate")
    /\ exc' = TimeoutExpired
    /\ UNCHANGED <<adb_path, timeout, stack, retval, running, printed, hist>>
    /\ UNCHANGED tools

\* line 66, the timeout expires: subprocess.run kills the child, waits for it
\* and raises TimeoutExpired inside the try
ExecTimeout ==
    /\ At("execute_command", "communicate")
    /\ running' = Reaped
    /\ exc' = TimeoutExpired
    /\ UNCHANGED <<adb_path, timeout, stack, retval, printed, hist>>
    /\ UNCHANGED tools

\* the try block of _check_adb_path spans lines 36-43
InCheckTry(f) == f.fn = "_check_adb_path" /\ f.pc \in {"run", "communicate"}

\* CheckCatches with a clause for the timeout only
CheckCatches_TimeoutOnly(e) == e.type = "TimeoutExpired"

\* the bare except of line 44 catches every exception
CheckCatches(e) == TRUE

\* an exception in flight leaves the frame on top: the except clauses of
\* lines 79-92 turn it into a result when the frame is inside the try of
\* execute_command, the except clause of lines 44-45 turns it into False when
\* it is inside the try of _check_adb_path, else the frame is left and the
\* exception goes on to the caller
Unwind ==
    /\ stack # << >>
    /\ exc # NoExc
    /\ stack' = Pop
    /\ IF InTry(Top)
       THEN /\ retval' = RetResult(ExceptHandler(exc))
            /\ exc' = NoExc
            /\ last' = IF IsDelegated THEN RetResult(ExceptHandler(exc)) ELSE last
       ELSE IF InCheckTry(Top) /\ CheckCatches(exc)
       THEN /\ retval' = RetBool(FALSE)
            /\ exc' = NoExc
            /\ last' = last
       ELSE /\ retval' = NoRet
            /\ exc' = exc
            /\ last' = last
    /\ UNCHANGED <<adb_path, timeout, running, printed, op, cmdRuns, polls,
                   tested, sleeps, wfd_ret, lastReady, readyBefore, probed,
                   invoked, args, info, grace, good, signals>>
    /\ UNCHANGED tools

-----------------------------------------------------------------------------
(* find_adb and _check_adb_path, lines 17-45, called by __init__ at line 13 *)

\* a call of _check_adb_path(path); command is the list of line 38
CheckFrame(p) ==
    [fn |-> "_check_adb_path", pc |-> "run", command |-> <<p, "--version">>,
     wait |-> FALSE, max_attempts |-> 0, i |-> 0]

\* VersionOk with every exit code that is not negative accepted
VersionOk_NonNegative(rc) == rc >= 0

\* result.returncode == 0, line 43
VersionOk(rc) == rc = 0

\* the candidate find_adb is at
Candidate == PossiblePaths[Top.i + 1]

\* lines 28-29: the next candidate is probed
FindProbe ==
    /\ At("find_adb", "loop")
    /\ Top.i < Len(PossiblePaths)
    /\ Len(stack) < MaxDepth
    /\ stack' = Append(Goto("test"), CheckFrame(Candidate))
    /\ UNCHANGED <<adb_path, timeout, retval, exc, running, printed, hist>>
    /\ UNCHANGED tools

\* lines 29-30, 13-15: the candidate works, find_adb returns it and __init__
\* sets adb_path and timeout
FindWorks ==
    /\ At("find_adb", "test")
    /\ retval.b
    /\ stack' = Pop
    /\ retval' = NoRet
    /\ adb_path' = Candidate
    /\ timeout' = 30
    /\ UNCHANGED <<exc, running, printed, hist>>
    /\ UNCHANGED tools

\* lines 29, 28: the candidate does not work, the loop goes on
FindFails ==
    /\ At("find_adb", "test")
    /\ ~retval.b
    /\ stack' = [stack EXCEPT ![Len(stack)].pc = "loop", ![Len(stack)].i = @ + 1]
    /\ retval' = NoRet
    /\ UNCHANGED <<adb_path, timeout, exc, running, printed, hist>>
    /\ UNCHANGED tools

\* lines 32, 13-15: no candidate is left, find_adb returns None and __init__
\* sets adb_path and timeout
FindNone ==
    /\ At("find_adb", "loop")
    /\ ~(Top.i < Len(PossiblePaths))
    /\ stack' = Pop
    /\ adb_path' = None
    /\ timeout' = 30
    /\ UNCHANGED <<retval, exc, running, printed, hist>>
    /\ UNCHANGED tools

\* the record of a probe: the candidate and whether its child exited with 0
Probe(p, b) == [path |-> p, ok |-> b]

probeFrame == <<op, cmdRuns, polls, tested, sleeps, wfd_ret, lastReady,
                readyBefore, invoked, facade>>

\* line 37, subprocess.run fails to start the candidate
CheckSpawnFails ==
    /\ At("_check_adb_path", "run")
    /\ \E e \in SpawnExceptions : exc' = e
    /\ probed' = Append(probed, Probe(Top.command[1], FALSE))
    /\ UNCHANGED <<adb_path, timeout, stack, retval, running, printed, probeFrame>>
    /\ UNCHANGED tools

\* line 37, subprocess.run starts the candidate and blocks on it
CheckSpawn ==
    /\ At("_check_adb_path", "run")
    /\ stack' = Goto("communicate")
    /\ running' = running \cup {NewPid}
    /\ UNCHANGED <<adb_path, timeout, retval, exc, printed, hist>>
    /\ UNCHANGED tools

\* lines 37-43: the candidate exits within 5 seconds
CheckComplete ==
    /\ At("_check_adb_path", "communicate")
    /\ \E c \in ExitCodes :
          /\ retval' = RetBool(VersionOk(c))
          /\ probed' = Append(probed, Probe(Top.command[1], c = 0))
    /\ running' = Reaped
    /\ stack' = Pop
    /\ UNCHANGED <<adb_path, timeout, exc, printed, probeFrame>>
    /\ UNCHANGED tools

\* line 37, the timeout of 5 seconds expires: subprocess.run kills the
\* candidate and raises TimeoutExpired
CheckTimeout ==
    /\ At("_check_adb_path", "communicate")
    /\ running' = Reaped
    /\ exc' = TimeoutExpired
    /\ probed' = Append(probed, Probe(Top.command[1], FALSE))
    /\ UNCHANGED <<adb_path, timeout, stack, retval, printed, probeFrame>>
    /\ UNCHANGED tools

-----------------------------------------------------------------------------
(* wait_for_device, lines 94-108 *)

\* line 96
WfdStart ==
    /\ At("wait_for_device", "start")
    /\ printed' = TRUE
    /\ stack' = Goto("loop")
    /\ polls' = 0
    /\ tested' = 0
    /\ sleeps' = 0
    /\ wfd_ret' = "none"
    /\ lastReady' = FALSE
    /\ readyBefore' = FALSE
    /\ UNCHANGED <<adb_path, timeout, retval, exc, running, op, cmdRuns, probed,
                   invoked, facade>>
    /\ UNCHANGED tools

\* lines 98-99: the next iteration polls the device list
WfdPoll ==
    /\ At("wait_for_device", "loop")
    /\ LoopContinues(Top)
    /\ Len(stack) < MaxDepth
    /\ stack' = Append(Goto("test"), PollFrame)
    /\ polls' = polls + 1
    /\ lastReady' = FALSE
    /\ readyBefore' = (readyBefore \/ lastReady)
    /\ UNCHANGED <<adb_path, timeout, retval, exc, running, printed, op,
                   cmdRuns, tested, sleeps, wfd_ret, probed, invoked, facade>>
    /\ UNCHANGED tools

\* WfdExhausted with the executable given up after a wait that found no device
WfdExhausted_DropsPath ==
    /\ At("wait_for_device", "loop")
    /\ ~LoopContinues(Top)
    /\ printed' = TRUE
    /\ stack' = Pop
    /\ retval' = RetBool(FALSE)
    /\ wfd_ret' = "false"
    /\ adb_path' = None
    /\ UNCHANGED <<timeout, exc, running, op, cmdRuns, polls,
                   tested, sleeps, lastReady, readyBefore, probed, invoked, facade>>
    /\ UNCHANGED tools

\* lines 98, 107-108: the range is exhausted
WfdExhausted ==
    /\ At("wait_for_device", "loop")
    /\ ~LoopContinues(Top)
    /\ printed' = TRUE
    /\ stack' = Pop
    /\ retval' = RetBool(FALSE)
    /\ wfd_ret' = "false"
    /\ UNCHANGED <<adb_path, timeout, exc, running, op, cmdRuns, polls,
                   tested, sleeps, lastReady, readyBefore, probed, invoked, facade>>
    /\ UNCHANGED tools

\* lines 100-102: the poll's output contains 'device\n'
WfdFound ==
    /\ At("wait_for_device", "test")
    /\ Contains(DeviceNL, retval.res.output)
    /\ printed' = TRUE
    /\ tested' = tested + 1
    /\ stack' = Pop
    /\ retval' = RetBool(TRUE)
    /\ wfd_ret' = "true"
    /\ UNCHANGED <<adb_path, timeout, exc, running, op, cmdRuns, polls,
                   sleeps, lastReady, readyBefore, probed, invoked, facade>>
    /\ UNCHANGED tools

\* lines 100, 104-105: it does not; print a dot, sleep one second, go on
WfdSleep ==
    /\ At("wait_for_device", "test")
    /\ ~Contains(DeviceNL, retval.res.output)
    /\ printed' = TRUE
    /\ tested' = tested + 1
    /\ sleeps' = sleeps + 1
    /\ stack' = [stack EXCEPT ![Len(stack)].pc = "loop", ![Len(stack)].i = @ + 1]
    /\ retval' = NoRet
    /\ UNCHANGED <<adb_path, timeout, exc, running, op, cmdRuns, polls,
                   wfd_ret, lastReady, readyBefore, probed, invoked, facade>>
    /\ UNCHANGED tools

-----------------------------------------------------------------------------
(* The facade operations, lines 110-202.  Each calls execute_command with   *)
(* one argument, so with the default wait_for_device=False of line 55.       *)

\* a call of a facade operation; i counts the queries get_device_info has made
FacadeFrame(name) ==
    [fn |-> name, pc |-> "start", command |-> << >>, wait |-> FALSE,
     max_attempts |-> 0, i |-> 0]

\* the facade operation on top calls execute_command(cmd) and goes on at point
Delegate(cmd, point) ==
    /\ Len(stack) < MaxDepth
    /\ stack' = Append(Goto(point), ExecFrame(cmd, FALSE))

\* what a facade step leaves alone: the session and the history of the waits
session == <<adb_path, timeout, running, probed>>
waiting == <<cmdRuns, polls, tested, sleeps, wfd_ret, lastReady, readyBefore>>

RetDict(d) == [kind |-> "dict", res |-> d]

\* a facade call starts; the caller's arguments are a
Call(name, a) ==
    Enter(FacadeFrame(name),
          [fn |-> name, command |-> << >>, wait |-> FALSE, max_attempts |-> 0],
          a)

\* the serials a caller passes as device_id; None is the default
DeviceIds == {None, "S1"}

\* a caller calls get_device_info(device_id)
CallGetDeviceInfo ==
    \E d \in DeviceIds : Call("get_device_info", [NoArgs EXCEPT !.device_id = d])

\* line 122: info = {}
GetInfoStart ==
    /\ At("get_device_info", "start")
    /\ info' = << >>
    /\ stack' = Goto("loop")
    /\ UNCHANGED <<session, waiting, retval, exc, printed, op, invoked, args,
                   grace, good, signals, last>>
    /\ UNCHANGED tools

\* lines 124-125: the next pair; its command line is split and executed
GetInfoQuery ==
    /\ At("get_device_info", "loop")
    /\ Top.i < Len(InfoCommands)
    /\ Delegate(Split(InfoCommands[Top.i + 1][1]), "store")
    /\ UNCHANGED <<session, waiting, retval, exc, printed, hist>>
    /\ UNCHANGED tools

\* GetInfoStore with the output stored for every query that succeeded
GetInfoStore_KeepEmpty ==
    /\ At("get_device_info", "store")
    /\ info' = IF retval.res.success
               THEN (InfoCommands[Top.i + 1][2] :> Strip(retval.res.output)) @@ info
               ELSE info
    /\ stack' = [stack EXCEPT ![Len(stack)].pc = "loop", ![Len(stack)].i = @ + 1]
    /\ retval' = NoRet
    /\ UNCHANGED <<session, waiting, exc, printed, op, invoked, args, grace,
                   good, signals, last>>
    /\ UNCHANGED tools

\* lines 126-127: store the output under the key when the query succeeded
\* and printed something
GetInfoStore ==
    /\ At("get_device_info", "store")
    /\ info' = IF retval.res.success /\ retval.res.output # << >>
               THEN (InfoCommands[Top.i + 1][2] :> Strip(retval.res.output)) @@ info
               ELSE info
    /\ stack' = [stack EXCEPT ![Len(stack)].pc = "loop", ![Len(stack)].i = @ + 1]
    /\ retval' = NoRet
    /\ UNCHANGED <<session, waiting, exc, printed, op, invoked, args, grace,
                   good, signals, last>>
    /\ UNCHANGED tools

\* line 129: the pairs are exhausted
GetInfoReturn ==
    /\ At("get_device_info", "loop")
    /\ Top.i = Len(InfoCommands)
    /\ stack' = Pop
    /\ retval' = RetDict(info)
    /\ UNCHANGED <<session, waiting, exc, printed, hist>>
    /\ UNCHANGED tools

\* the modes callers pass: those of the table, and one that is not in it
ModeArgs == DOMAIN Modes \cup {NotAMode}

\* a caller calls reboot_device(mode)
CallRebootDevice ==
    \E mo \in ModeArgs : Call("reboot_device", [NoArgs EXCEPT !.mode = mo])

\* RebootInvalid with the table looked up before the mode is validated: the
\* reboot is attempted with the mode itself as its target
RebootInvalid_Attempted ==
    /\ At("reboot_device", "start")
    /\ args.mode \notin DOMAIN Modes
    /\ Delegate(<<"reboot", args.mode>>, "result")
    /\ UNCHANGED <<session, waiting, retval, exc, printed, hist>>
    /\ UNCHANGED tools

\* lines 142-144: a mode that is not in the table is reported, False returned
RebootInvalid ==
    /\ At("reboot_device", "start")
    /\ args.mode \notin DOMAIN Modes
    /\ printed' = TRUE
    /\ stack' = Pop
    /\ retval' = RetBool(FALSE)
    /\ UNCHANGED <<session, waiting, exc, hist>>
    /\ UNCHANGED tools

\* RebootCmd as the target alone
RebootCmd_TargetOnly(mo) == IF Modes[mo] # "" THEN <<Modes[mo]>> ELSE << >>

\* cmd of lines 146-148: ['reboot'], and the target when it is not empty
RebootCmd(mo) == IF Modes[mo] # "" THEN <<"reboot", Modes[mo]>> ELSE <<"reboot">>

\* lines 146-150: the reboot command is executed
RebootIssue ==
    /\ At("reboot_device", "start")
    /\ args.mode \in DOMAIN Modes
    /\ Delegate(RebootCmd(args.mode), "result")
    /\ UNCHANGED <<session, waiting, retval, exc, printed, hist>>
    /\ UNCHANGED tools

\* RebootSleep with the delay taken whatever the result
RebootSleep_Always ==
    /\ At("reboot_device", "result")
    /\ printed' = TRUE
    /\ grace' = grace + 1
    /\ stack' = Goto("slept")
    /\ UNCHANGED <<session, waiting, retval, exc, op, invoked, args, info, good,
                   signals, last>>
    /\ UNCHANGED tools

\* lines 152-154: the command succeeded; report it and sleep 5 seconds
RebootSleep ==
    /\ At("reboot_device", "result")
    /\ retval.res.success
    /\ printed' = TRUE
    /\ grace' = grace + 1
    /\ stack' = Goto("slept")
    /\ UNCHANGED <<session, waiting, retval, exc, op, invoked, args, info, good,
                   signals, last>>
    /\ UNCHANGED tools

\* line 155, after the sleep
RebootTrue ==
    /\ At("reboot_device", "slept")
    /\ stack' = Pop
    /\ retval' = RetBool(TRUE)
    /\ UNCHANGED <<session, waiting, exc, printed, hist>>
    /\ UNCHANGED tools

\* lines 152, 157: the command failed
RebootFalse ==
    /\ At("reboot_device", "result")
    /\ ~retval.res.success
    /\ stack' = Pop
    /\ retval' = RetBool(FALSE)
    /\ UNCHANGED <<session, waiting, exc, printed, hist>>
    /\ UNCHANGED tools

\* a caller calls is_device_rooted()
CallIsDeviceRooted == Call("is_device_rooted", NoArgs)

\* line 161: the elevated echo
RootedPrimary ==
    /\ At("is_device_rooted", "start")
    /\ Delegate(SuEcho, "primary")
    /\ UNCHANGED <<session, waiting, retval, exc, printed, hist>>
    /\ UNCHANGED tools

\* the test of line 163
PrimaryHolds(r) == r.success /\ Contains(RootCheck, r.output)

\* lines 163-164: the echo succeeded and printed the marker
RootedYes ==
    /\ At("is_device_rooted", "primary")
    /\ PrimaryHolds(retval.res)
    /\ stack' = Pop
    /\ retval' = RetBool(TRUE)
    /\ UNCHANGED <<session, waiting, exc, printed, hist>>
    /\ UNCHANGED tools

\* RootedFallback with the fallback run whatever the echo gave
RootedFallback_Always ==
    /\ At("is_device_rooted", "primary")
    /\ Delegate(WhichSu, "fallback")
    /\ retval' = NoRet
    /\ UNCHANGED <<session, waiting, exc, printed, hist>>
    /\ UNCHANGED tools

\* lines 163, 167: it did not; look for su on the search path
RootedFallback ==
    /\ At("is_device_rooted", "primary")
    /\ ~PrimaryHolds(retval.res)
    /\ Delegate(WhichSu, "fallback")
    /\ retval' = NoRet
    /\ UNCHANGED <<session, waiting, exc, printed, hist>>
    /\ UNCHANGED tools

\* FallbackHolds with the exit code of `which` ignored
FallbackHolds_OutputOnly(r) == Contains(SlashSu, r.output)

\* the expression of line 168
FallbackHolds(r) == r.success /\ Contains(SlashSu, r.output)

\* line 168
RootedReturn ==
    /\ At("is_device_rooted", "fallback")
    /\ stack' = Pop
    /\ retval' = RetBool(FallbackHolds(retval.res))
    /\ UNCHANGED <<session, waiting, exc, printed, hist>>
    /\ UNCHANGED tools

\* a caller calls push_file(local_path, device_path)
CallPushFile ==
    \E lp \in LocalFiles \cup {MissingFile} :
        Call("push_file",
             [NoArgs EXCEPT !.local_path = lp, !.device_path = DevicePath])

\* os.path.exists(local_path), line 172
Exists(lp) == lp \in LocalFiles

\* PushMissing with the push attempted for a file that does not exist
PushMissing_Attempted ==
    /\ At("push_file", "start")
    /\ ~Exists(args.local_path)
    /\ Delegate(<<"push", args.local_path, args.device_path>>, "result")
    /\ UNCHANGED <<session, waiting, retval, exc, printed, hist>>
    /\ UNCHANGED tools

\* lines 172-174: the local file does not exist
PushMissing ==
    /\ At("push_file", "start")
    /\ ~Exists(args.local_path)
    /\ printed' = TRUE
    /\ stack' = Pop
    /\ retval' = RetBool(FALSE)
    /\ UNCHANGED <<session, waiting, exc, hist>>
    /\ UNCHANGED tools

\* lines 172, 176: it exists; the push is executed
PushIssue ==
    /\ At("push_file", "start")
    /\ Exists(args.local_path)
    /\ Delegate(<<"push", args.local_path, args.device_path>>, "result")
    /\ UNCHANGED <<session, waiting, retval, exc, printed, hist>>
    /\ UNCHANGED tools

\* lines 178-183: report the outcome and return the success flag
PushDone ==
    /\ At("push_file", "result")
    /\ printed' = TRUE
    /\ stack' = Pop
    /\ retval' = RetBool(retval.res.success)
    /\ UNCHANGED <<session, waiting, exc, hist>>
    /\ UNCHANGED tools

\* the path pull_file writes to on the host
PulledFile == "/backup/locksettings.db"

\* a caller calls pull_file(device_path, local_path)
CallPullFile ==
    Call("pull_file",
         [NoArgs EXCEPT !.local_path = PulledFile, !.device_path = DevicePath])

\* line 187: the pull is executed
PullIssue ==
    /\ At("pull_file", "start")
    /\ Delegate(<<"pull", args.device_path, args.local_path>>, "result")
    /\ UNCHANGED <<session, waiting, retval, exc, printed, hist>>
    /\ UNCHANGED tools

\* lines 189-194: report the outcome and return the success flag
PullDone ==
    /\ At("pull_file", "result")
    /\ printed' = TRUE
    /\ stack' = Pop
    /\ retval' = RetBool(retval.res.success)
    /\ UNCHANGED <<session, waiting, exc, hist>>
    /\ UNCHANGED tools

\* a caller calls shell_command(command, root)
CallShellCommand ==
    \E t \in ShellTexts, r \in BOOLEAN :
        Call("shell_command", [NoArgs EXCEPT !.command = t, !.root = r])

\* ShellText with the double quotes of the command escaped
ShellText_Escaped(a) ==
    IF a.root
    THEN SuWrap(SelectSeq(a.command, LAMBDA ch : ch # "\""))
    ELSE a.command

\* command after lines 198-199
ShellText(a) == IF a.root THEN SuWrap(a.command) ELSE a.command

\* lines 198-201: the shell request is executed
ShellIssue ==
    /\ At("shell_command", "start")
    /\ Delegate(<<"shell", ShellText(args)>>, "result")
    /\ UNCHANGED <<session, waiting, retval, exc, printed, hist>>
    /\ UNCHANGED tools

\* line 202: return result
ShellReturn ==
    /\ At("shell_command", "result")
    /\ stack' = Pop
    /\ UNCHANGED <<session, waiting, retval, exc, printed, hist>>
    /\ UNCHANGED tools

\* the steps of the facade operations
FacadeStep ==
    \/ GetInfoStart
    \/ GetInfoQuery
    \/ GetInfoStore
    \/ GetInfoReturn
    \/ RebootInvalid
    \/ RebootIssue
    \/ RebootSleep
    \/ RebootTrue
    \/ RebootFalse
    \/ RootedPrimary
    \/ RootedYes
    \/ RootedFallback
    \/ RootedReturn
    \/ PushMissing
    \/ PushIssue
    \/ PushDone
    \/ PullIssue
    \/ PullDone
    \/ ShellIssue
    \/ ShellReturn

-----------------------------------------------------------------------------

\* the steps of execute_command and wait_for_device
Run ==
    \/ ExecCheck
    \/ ExecTry
    \/ ExecAfterWait
    \/ ExecSpawnFails
    \/ ExecSpawn
    \/ ExecComplete
    \/ ExecTimeout
    \/ Unwind
    \/ WfdStart
    \/ WfdPoll
    \/ WfdExhausted
    \/ WfdFound
    \/ WfdSleep

\* the steps of a call in progress
Step ==
    \/ Run
    \/ FindProbe
    \/ FindWorks
    \/ FindFails
    \/ FindNone
    \/ CheckSpawnFails
    \/ CheckSpawn
    \/ CheckComplete
    \/ CheckTimeout
    \/ FacadeStep

Next ==
    \/ CallExecuteCommand
    \/ CallWaitForDevice
    \/ CallGetDeviceInfo
    \/ CallRebootDevice
    \/ CallIsDeviceRooted
    \/ CallPushFile
    \/ CallPullFile
    \/ CallShellCommand
    \/ Step

Spec == Init /\ [][Next]_vars

\* the interpreter runs the call in progress on; a child that was spawned
\* exits or runs into the timeout of subprocess.run
FairSpec == Spec /\ WF_vars(Step)

-----------------------------------------------------------------------------
(* Properties *)

\* the call of the named operation has ended, by a return or by a raise
Completed(name) == op.fn = name /\ stack = << >>

\* the result execute_command or the poll returned last
Returned == retval.kind = "result"

\* max_attempts of the wait_for_device of the current call
WfdN == IF op.fn = "wait_for_device" THEN op.max_attempts ELSE DefaultMaxAttempts

\* no poll so far had a device list with a ready device
NeverReady == ~lastReady /\ ~readyBefore

\* C1: every result execute_command returns, whether the child completed with
\* any exit code, ran into the timeout or could not be started, has success
\* true exactly when its returncode is 0.
C1_SuccessIffExitZero ==
    Returned => (retval.res.success <=> (retval.res.returncode = 0))

\* a child that exited with the largest exit code was reported as a failure
C1_Witness ==
    /\ Completed("execute_command")
    /\ Returned
    /\ retval.res.returncode = 255
    /\ ~retval.res.success

\* C2: with the executable resolved, a call of execute_command ends with a
\* result and with no exception, whatever failed (the child's exit code, the
\* spawn, the timeout, the device wait); an exception leaves execute_command
\* only when no executable was resolved.
C2_OnlyNotFoundEscapes ==
    Completed("execute_command") =>
        /\ adb_path # None => (exc = NoExc /\ Returned)
        /\ exc # NoExc => (adb_path = None /\ exc = ADBNotFound)

\* after a device wait that found no device, the spawn of the command failed
\* and the call returned the failure as a result
C2_Witness ==
    /\ Completed("execute_command")
    /\ adb_path # None
    /\ op.wait
    /\ wfd_ret = "false"
    /\ exc = NoExc
    /\ Returned
    /\ \E e \in SpawnExceptions : retval.res.error = Str(e)

\* C3: with no executable resolved, execute_command raises "ADB not found"
\* before anything else: it never calls subprocess.run, never enters
\* wait_for_device (no poll, no output), whatever the command and the flag.
C3_FailFast ==
    (op.fn = "execute_command" /\ adb_path = None) =>
        /\ cmdRuns = 0
        /\ polls = 0
        /\ running = {}
        /\ Len(stack) <= 1
        /\ wfd_ret = "none"
        /\ ~printed
        /\ stack = << >> => (exc = ADBNotFound /\ retval = NoRet)

\* a call that asked for the device wait was refused
C3_Witness ==
    /\ Completed("execute_command")
    /\ adb_path = None
    /\ op.wait
    /\ exc = ADBNotFound

\* C4: when subprocess.run of a command does not complete (the spawn raises,
\* or the timeout expires), the execute_command that ran it returns success
\* false, returncode -1, empty output, and as error 'Command timed out' for
\* the timeout and str(e) for any other exception.
C4_FailureShape ==
    [][ (/\ stack # << >>
         /\ exc # NoExc
         /\ Top.fn = "execute_command"
         /\ Top.pc \in {"run", "communicate"})
        => (/\ stack' = Pop
            /\ exc' = NoExc
            /\ retval'.kind = "result"
            /\ retval'.res =
                 [success |-> FALSE, output |-> << >>,
                  error |-> IF Top.pc = "communicate" THEN TimedOutMsg ELSE Str(exc),
                  returncode |-> -1]) ]_vars

\* a command ran into the timeout and the call returned the timeout result
C4_Witness ==
    /\ Completed("execute_command")
    /\ Returned
    /\ retval.res.error = TimedOutMsg
    /\ retval.res.returncode = -1
    /\ cmdRuns = 1

\* C5: once execute_command has returned the result of a timeout, the child
\* it spawned is not running any more (and neither is any other child).
C5_NoChildAfterTimeout ==
    (Returned /\ retval.res.error = TimedOutMsg) => running = {}

\* a poll of the device wait ran into the timeout and returned
C5_Witness ==
    /\ Returned
    /\ retval.res.error = TimedOutMsg
    /\ Len(stack) = 2
    /\ Top.fn = "wait_for_device"
    /\ polls = 2
    /\ running = {}

\* C6: when the device list a poll received has a device in the ready state,
\* on whatever line, the iteration that tests this output ends the wait with
\* true.
C6_ReadyOutputFound ==
    (lastReady /\ tested = polls) => wfd_ret = "true"

\* C7: on a session with an executable, as long as no poll reported a ready
\* device (polls that fail or time out included), wait_for_device(n) issues at
\* most n polls, lets no exception through, does not return true, and has
\* issued exactly n polls and slept exactly n times when it returns false.
C7_ExhaustedAfterN ==
    (adb_path # None /\ NeverReady) =>
        /\ polls <= WfdN
        /\ wfd_ret # "true"
        /\ wfd_ret = "false" => (polls = WfdN /\ sleeps = WfdN /\ tested = WfdN)
        /\ (stack # << >> /\ Top.fn = "wait_for_device") => exc = NoExc
        /\ Completed("wait_for_device") => (exc = NoExc /\ retval = RetBool(FALSE))

\* wait_for_device with the largest max_attempts returned false
C7_Witness ==
    /\ Completed("wait_for_device")
    /\ adb_path # None
    /\ NeverReady
    /\ op.max_attempts = MaxAttemptsArg
    /\ polls = MaxAttemptsArg
    /\ sleeps = MaxAttemptsArg
    /\ retval = RetBool(FALSE)

\* C8: when poll k is the first whose device list has a ready device,
\* wait_for_device returns true in iteration k, after k polls and k-1 sleeps,
\* and issues no poll after it.
C8_FoundOnFirstReady ==
    /\ ~readyBefore
    /\ (lastReady /\ tested = polls) => (wfd_ret = "true" /\ sleeps = polls - 1)

\* C9: on a session with an executable, execute_command with wait_for_device
\* set runs subprocess.run for the requested command only after
\* wait_for_device has returned (true or false), and exactly once by the time
\* it returns.
C9_WaitThenRunOnce ==
    (op.fn = "execute_command" /\ op.wait /\ adb_path # None) =>
        /\ cmdRuns <= 1
        /\ cmdRuns = 1 => (wfd_ret # "none" /\ Len(stack) <= 1)
        /\ stack = << >> => cmdRuns = 1

\* the wait was exhausted and the command ran all the same, with success
C9_Witness ==
    /\ Completed("execute_command")
    /\ op.wait
    /\ wfd_ret = "false"
    /\ cmdRuns = 1
    /\ Returned
    /\ retval.res.success

\* C10: every call of wait_for_device and of execute_command ends; no poll is
\* itself device-gated, so that a call issues at most max_attempts polls (30
\* from execute_command) and runs the requested command at most once.
C10_Terminates ==
    /\ [](\A k \in 2..Len(stack) :
              stack[k].fn = "execute_command" => ~stack[k].wait)
    /\ [](polls <= WfdN /\ cmdRuns <= 1)
    /\ (stack # << >>) ~> (stack = << >>)

\* a call with the device wait ended after all 30 polls and the command
C10_Witness ==
    /\ Completed("execute_command")
    /\ op.wait
    /\ polls = DefaultMaxAttempts
    /\ cmdRuns = 1

\* C11: find_adb probes the candidates in the order of the list, probes none
\* after one whose version query exited with 0, and returns that one; it
\* returns None when all six were probed and none exited with 0.
C11_FirstWorkingReturned ==
    /\ \A k \in 1..Len(probed) : probed[k].path = PossiblePaths[k]
    /\ \A k \in 1..(Len(probed) - 1) : ~probed[k].ok
    /\ Constructed =>
          IF probed # << >> /\ probed[Len(probed)].ok
          THEN adb_path = probed[Len(probed)].path
          ELSE adb_path = None /\ Len(probed) = Len(PossiblePaths)

\* the third candidate was the first to work and was returned
C11_Witness ==
    /\ Constructed
    /\ op.fn = "none"
    /\ Len(probed) = 3
    /\ probed[3].ok
    /\ adb_path = PossiblePaths[3]

\* C12: whatever happens to a probe (the spawn raises, the timeout expires,
\* the exit code is not 0), find_adb receives False for it and no exception:
\* the construction never ends by a raise, and a candidate that works is
\* returned however the candidates before it failed.
C12_ProbeFailuresContained ==
    /\ (stack # << >> /\ Top.fn = "find_adb") => exc = NoExc
    /\ (stack # << >> /\ Top.fn = "find_adb" /\ Top.pc = "test") =>
          /\ retval.kind = "bool"
          /\ ~probed[Len(probed)].ok => ~retval.b
    /\ ~Constructed => stack # << >>
    /\ (Constructed /\ \E k \in 1..Len(probed) : probed[k].ok) => adb_path # None

\* five candidates failed and the sixth was returned
C12_Witness ==
    /\ Constructed
    /\ op.fn = "none"
    /\ Len(probed) = 6
    /\ \A k \in 1..5 : ~probed[k].ok
    /\ adb_path = PossiblePaths[6]

\* the session resolved an executable
Resolved == adb_path # None

\* the k-th property query as subprocess.run is to receive it
PropertyQuery(k) ==
    <<adb_path, "shell", "getprop", InfoCommands[k][1][Len(InfoCommands[k][1])]>>

\* C13: on a session with an executable, whatever the outcomes of the seven
\* property queries, get_device_info issues all seven and returns a mapping
\* whose keys are exactly those whose query exited with 0 and printed
\* something, each mapped to that query's trimmed output; while it runs, no key
\* it has stored is lost or changed by a later query that fails or is empty.
C13_InfoIsWhatSucceeded ==
    (op.fn = "get_device_info" /\ Resolved) =>
        /\ exc # NoExc => InTry(Top)
        /\ DOMAIN info \subseteq DOMAIN good
        /\ \A key \in DOMAIN info : info[key] = good[key]
        /\ stack = << >> =>
              /\ Len(invoked) = Len(InfoCommands)
              /\ \A k \in DOMAIN invoked : invoked[k] = PropertyQuery(k)
              /\ retval.kind = "dict"
              /\ DOMAIN retval.res = DOMAIN good
              /\ \A key \in DOMAIN good : retval.res[key] = good[key]

\* seven queries of which two failed or were empty gave a mapping of five keys
C13_Witness ==
    /\ Completed("get_device_info")
    /\ Resolved
    /\ retval.kind = "dict"
    /\ Cardinality(DOMAIN retval.res) = 5
    /\ "Model" \notin DOMAIN retval.res
    /\ retval.res["Hardware"] = <<"ro.hardware", " ", "=">>

\* C14: when get_device_info is called with a device_id, every command it
\* issues is the executable, the selector -s with that serial, then the
\* arguments of the request.
C14_SerialSelectorPrefixed ==
    (op.fn = "get_device_info" /\ args.device_id # None) =>
        \A k \in DOMAIN invoked :
            /\ Len(invoked[k]) > 3
            /\ SubSeq(invoked[k], 1, 3) = <<adb_path, "-s", args.device_id>>

\* no process was started for the current call, and none is being started
NothingInvoked ==
    /\ invoked = << >>
    /\ polls = 0
    /\ wfd_ret = "none"
    /\ running = {}
    /\ Len(stack) <= 1

\* C15: reboot_device with a mode that is not in the table returns False
\* without raising and without a single process invocation, whether or not
\* the session resolved an executable.
C15_InvalidModeRejected ==
    (op.fn = "reboot_device" /\ args.mode \notin DOMAIN Modes) =>
        /\ exc = NoExc
        /\ NothingInvoked
        /\ stack = << >> => retval = RetBool(FALSE)

\* on a session without an executable an unknown mode was answered with False
C15_Witness ==
    /\ Completed("reboot_device")
    /\ args.mode = NotAMode
    /\ ~Resolved
    /\ retval = RetBool(FALSE)
    /\ printed

\* C16: on a session with an executable, reboot_device with a mode of the
\* table issues exactly one reboot command and returns True exactly when the
\* result of that command has success true; the 5 second sleep is taken once,
\* before True is returned, and not at all when the command failed.
C16_RebootOnceThenGrace ==
    (op.fn = "reboot_device" /\ args.mode \in DOMAIN Modes /\ Resolved) =>
        /\ exc # NoExc => InTry(Top)
        /\ Len(invoked) <= 1
        /\ grace \in {0, 1}
        /\ grace = 1 => last.kind = "result" /\ last.res.success
        /\ At("reboot_device", "slept") => grace = 1
        /\ stack = << >> =>
              /\ Len(invoked) = 1
              /\ invoked[1][1] = adb_path
              /\ invoked[1][2] = "reboot"
              /\ retval.kind = "bool"
              /\ retval.b <=> last.res.success
              /\ retval.b <=> grace = 1

\* a reboot to recovery succeeded: True came back after one sleep
C16_Witness ==
    /\ Completed("reboot_device")
    /\ Resolved
    /\ args.mode = "recovery"
    /\ invoked = << <<adb_path, "reboot", "recovery">> >>
    /\ retval = RetBool(TRUE)
    /\ grace = 1

\* C17: on a session with an executable, is_device_rooted issues the elevated
\* echo first; when that check holds (the command succeeded and printed the
\* marker) the search-path check is not issued, so the echo is the one command
\* of the call, and the search-path check is issued only after an echo that
\* did not hold.
C17_FallbackOnlyAfterFailure ==
    (op.fn = "is_device_rooted" /\ Resolved) =>
        /\ Len(invoked) <= 2
        /\ Len(invoked) >= 1 => invoked[1] = <<adb_path>> \o SuEcho
        /\ Len(invoked) = 2 =>
              /\ invoked[2] = <<adb_path>> \o WhichSu
              /\ "su" \notin signals
        /\ ("su" \in signals /\ stack = << >>) => Len(invoked) = 1

\* the echo printed the marker and the call ended after that one command
C17_Witness ==
    /\ Completed("is_device_rooted")
    /\ Resolved
    /\ "su" \in signals
    /\ invoked = << <<adb_path>> \o SuEcho >>
    /\ retval = RetBool(TRUE)

\* C18: on a session with an executable, is_device_rooted returns True exactly
\* when one of the two signals holds: the elevated echo exited with 0 and
\* printed the marker, or `which su` exited with 0 and printed the location of
\* the binary; it returns False when neither does, also when both commands
\* ran into the timeout.
C18_RootedIffASignal ==
    (Completed("is_device_rooted") /\ Resolved) =>
        /\ exc = NoExc
        /\ retval.kind = "bool"
        /\ retval.b <=> signals # {}

\* the echo failed and `which su` found the binary
C18_Witness ==
    /\ Completed("is_device_rooted")
    /\ Resolved
    /\ signals = {"which"}
    /\ Len(invoked) = 2
    /\ retval = RetBool(TRUE)

\* C19: push_file tests that the local file exists before anything else: when
\* it does not, push_file returns False and no process is invoked; when it
\* does (on a session with an executable), push_file issues exactly one push
\* command, never a second one, and returns the success flag of its result.
C19_PushChecksLocalFile ==
    op.fn = "push_file" =>
        IF ~Exists(args.local_path)
        THEN /\ exc = NoExc
             /\ NothingInvoked
             /\ stack = << >> => retval = RetBool(FALSE)
        ELSE Resolved =>
                /\ exc # NoExc => InTry(Top)
                /\ Len(invoked) <= 1
                /\ stack = << >> =>
                      /\ invoked =
                            << <<adb_path, "push", args.local_path, args.device_path>> >>
                      /\ retval.kind = "bool"
                      /\ retval.b <=> last.res.success

\* a file that exists was pushed once and the push failed: False came back
C19_Witness ==
    /\ Completed("push_file")
    /\ Resolved
    /\ Exists(args.local_path)
    /\ Len(invoked) = 1
    /\ last.kind = "result"
    /\ ~last.res.success
    /\ retval = RetBool(FALSE)

\* the command string shell_command is to hand to `adb shell`
ExpectedShellText ==
    IF args.root
    THEN <<"s", "u", " ", "-", "c", " ", "\"">> \o args.command \o <<"\"">>
    ELSE args.command

\* C20: on a session with an executable, shell_command issues exactly one
\* shell request and returns the result of execute_command unchanged; the
\* command string of the request is the caller's string itself when root is
\* false, and su -c "<string>" with the caller's characters unmodified (quotes
\* in it are not escaped) when root is true.
C20_ShellPassedThrough ==
    (op.fn = "shell_command" /\ Resolved) =>
        /\ exc # NoExc => InTry(Top)
        /\ Len(invoked) <= 1
        /\ \A k \in DOMAIN invoked :
              invoked[k] = <<adb_path, "shell", ExpectedShellText>>
        /\ stack = << >> =>
              /\ Len(invoked) = 1
              /\ retval.kind = "result"
              /\ retval = last

\* a command with quotes in it was run as root and its result handed back
C20_Witness ==
    /\ Completed("shell_command")
    /\ Resolved
    /\ args.root
    /\ Contains(<<"\"">>, args.command)
    /\ Len(invoked) = 1
    /\ retval.kind = "result"
    /\ retval.res.success
    /\ retval.res.output = <<"a", " ", "b">>

\* the session was constructed without an executable
Unavailable == Constructed /\ ~Resolved

\* no call of execute_command has got past the test of line 57, so that
\* subprocess.run was neither reached nor called
NoSpawnAttempted ==
    /\ running = {}
    /\ invoked = << >>
    /\ cmdRuns = 0
    /\ \A k \in DOMAIN stack :
          stack[k].fn = "execute_command" => stack[k].pc = "check"

\* the call in progress is one that ends before it reaches execute_command:
\* a reboot to a mode that is not in the table, a push of a missing file, a
\* wait of no attempts
RejectedEarly ==
    \/ op.fn = "reboot_device" /\ args.mode \notin DOMAIN Modes
    \/ op.fn = "push_file" /\ ~Exists(args.local_path)
    \/ op.fn = "wait_for_device" /\ op.max_attempts = 0

\* C21 as stated: on a session without an executable, every operation, with
\* any arguments, never attempts a spawn and ends by reporting the same
\* condition, the exception with the message 'ADB not found'.
C21_AllReportNotFound ==
    Unavailable =>
        /\ NoSpawnAttempted
        /\ (op.fn # "none" /\ stack = << >>) =>
              /\ exc.type = "Exception"
              /\ exc.msg = NotFoundMsg

\* C21, amended: on a session without an executable no operation attempts a
\* spawn, and every operation ends by raising the exception with the message
\* 'ADB not found', except reboot_device with a mode that is not in the table,
\* push_file with a local file that does not exist and wait_for_device with
\* max_attempts 0, which return False without raising.
C21_NotFoundUnlessRejected ==
    Unavailable =>
        /\ NoSpawnAttempted
        /\ (op.fn # "none" /\ stack = << >>) =>
              IF RejectedEarly
              THEN exc = NoExc /\ retval = RetBool(FALSE)
              ELSE /\ exc.type = "Exception"
                   /\ exc.msg = NotFoundMsg
                   /\ retval = NoRet

\* is_device_rooted on a session without an executable raised 'ADB not found'
C21_Witness ==
    /\ Unavailable
    /\ Completed("is_device_rooted")
    /\ exc.msg = NotFoundMsg
    /\ running = {}
    /\ invoked = << >>

\* every candidate of find_adb was probed and none worked
NoneWorks ==
    /\ Len(probed) = Len(PossiblePaths)
    /\ \A k \in DOMAIN probed : ~probed[k].ok

\* C22: when no candidate can be located, the construction of the session
\* ends with an error instead of yielding a session.
C22_ConstructionFails ==
    (NoneWorks /\ stack = << >>) => exc # NoExc

\* C23: no operation of the session writes to standard output.
C23_NeverPrints == ~printed

\* the stack holds no call of the path resolution
NotResolving ==
    \A k \in DOMAIN stack : stack[k].fn \notin {"find_adb", "_check_adb_path"}

\* C24: once the session is constructed, no step of any operation, whatever
\* its outcome, changes adb_path or the timeout, and none runs the path
\* resolution again (no candidate is probed, find_adb is not called).
C24_SessionImmutable ==
    [][Constructed =>
          /\ adb_path' = adb_path
          /\ timeout' = timeout
          /\ probed' = probed
          /\ NotResolving'
      ]_vars

\* a wait that ran out of attempts left the resolved session as it was
C24_Witness ==
    /\ Completed("wait_for_device")
    /\ wfd_ret = "false"
    /\ polls = MaxAttemptsArg
    /\ adb_path = PossiblePaths[2]
    /\ timeout = 30
    /\ Len(probed) = 2

\* C25: at every moment at most one process started by the session is
\* running, during the construction, the polls of a wait and the queries of
\* get_device_info and is_device_rooted alike.
C25_OneChildAtATime == Cardinality(running) <= 1

\* the third query of get_device_info is running, alone
C25_Witness ==
    /\ op.fn = "get_device_info"
    /\ Len(invoked) = 3
    /\ running = {-3}

\* C26: every call of execute_command made by a facade operation or by the
\* poll of wait_for_device has a non-empty argument list, also the reboot to
\* 'system' whose mode has no target; the timeout of a constructed session
\* is 30, so every command is run under a positive timeout.
C26_ArgumentsAndTimeout ==
    /\ \A k \in DOMAIN stack :
          stack[k].fn = "execute_command" => Len(stack[k].command) >= 1
    /\ Constructed => timeout = 30
    /\ \A k \in DOMAIN invoked : Len(invoked[k]) >= 2
    /\ (stack # << >> /\ Top.fn = "execute_command" /\ Top.pc = "communicate")
          => timeout > 0

\* the reboot to 'system' is running as `adb reboot` under the timeout of 30
C26_Witness ==
    /\ op.fn = "reboot_device"
    /\ args.mode = "system"
    /\ At("execute_command", "communicate")
    /\ Top.command = <<"reboot">>
    /\ invoked = << <<adb_path, "reboot">> >>
    /\ timeout = 30

\* the arguments of `adb` the claim gives for a mode
RebootArgsFor(mo) ==
    CASE mo = "system" -> <<"reboot">>
      [] mo = "recovery" -> <<"reboot", "recovery">>
      [] mo = "bootloader" -> <<"reboot", "bootloader">>
      [] mo = "fastboot" -> <<"reboot", "bootloader">>
      [] mo = "download" -> <<"reboot", "download">>
      [] mo = "sideload" -> <<"reboot", "sideload">>

\* C27: the command reboot_device issues for a valid mode is reboot with no
\* target for 'system', reboot with the target of the same name for
\* 'recovery', 'bootloader', 'download' and 'sideload', and reboot with the
\* target 'bootloader' for 'fastboot'.
C27_ModeMapsToTarget ==
    (op.fn = "reboot_device" /\ args.mode \in DOMAIN Modes) =>
        \A k \in DOMAIN invoked :
            invoked[k] = <<adb_path>> \o RebootArgsFor(args.mode)

\* a reboot to 'fastboot' issued `adb reboot bootloader`
C27_Witness ==
    /\ Completed("reboot_device")
    /\ args.mode = "fastboot"
    /\ invoked = << <<adb_path, "reboot", "bootloader">> >>

-----------------------------------------------------------------------------
(* The bypass tools built on the session: PatternBypass,                   *)
(* src/pattern_bypass.py, and PINReset, src/pin_reset.py                   *)

\* the session of a tool that is not in a call: ADBManager() has run, and
\* find_adb gave path
Parked(path) ==
    /\ adb_path = path
    /\ timeout = 30
    /\ stack = << >>
    /\ retval = NoRet
    /\ exc = NoExc
    /\ running = {}
    /\ printed = FALSE
    /\ op = [fn |-> "none", command |-> << >>, wait |-> FALSE, max_attempts |-> 0]
    /\ cmdRuns = 0
    /\ polls = 0
    /\ tested = 0
    /\ sleeps = 0
    /\ wfd_ret = "none"
    /\ lastReady = FALSE
    /\ readyBefore = FALSE
    /\ probed = << >>
    /\ invoked = << >>
    /\ args = NoArgs
    /\ info = << >>
    /\ grace = 0
    /\ good = << >>
    /\ signals = {}
    /\ last = NoRet

PatternBypass == "PatternBypass"
PINReset == "PINReset"

\* self.methods: pattern_bypass.py lines 13-19, pin_reset.py lines 12-18
Methods(t) ==
    IF t = PatternBypass
    THEN <<"_method_adb_delete", "_method_sqlite_reset", "_method_recovery_mode",
           "_method_emergency_call", "_method_safe_mode">>
    ELSE <<"_method_forgot_pattern", "_method_frp_bypass", "_method_recovery_wifi",
           "_method_google_account", "_method_smart_lock">>

\* how a call of a method can end: with true, with false, or with an
\* exception. _method_adb_delete reads no input and creates nothing on the
\* host; _method_sqlite_reset creates a directory outside its try; the
\* others read the console, which can be at its end
MethodOutcomes(name) ==
    IF name = "_method_adb_delete"
    THEN {"true", "false"}
    ELSE {"true", "false", "raise"}

\* files_to_check, pattern_bypass.py lines 55-59
FilesToCheck ==
    <<"/data/system/gesture.key", "/data/system/locksettings.db",
      "/data/system/password.key">>

\* the file a path names
BaseName(path) ==
    CASE path = "/data/system/gesture.key" -> "gesture.key"
      [] path = "/data/system/locksettings.db" -> "locksettings.db"
      [] path = "/data/system/password.key" -> "password.key"

\* what ls writes about a file that is missing; 'No such file' is the
\* literal of pattern_bypass.py line 63
NoSuchFile == <<"No such file">>
LsComplaint(path) ==
    <<"ls:", " ", path, ":", " ", "No such file", " ", "or", " ", "directory", NL>>

\* what a child can do that lists a file: exit code, stdout, stderr
LsCompletions(path) ==
    {<<c, o, e>> : c \in {0, 1}, o \in {<< >>, <<path, NL>>},
                   e \in {<< >>, LsComplaint(path)}}

\* what a child can do that lists /data/system/: the names of the files there
ListingCompletions ==
    {<<c, o, << >> >> :
        c \in {0, 1},
        o \in { << >>,
                <<"locksettings.db", NL>>,
                <<"gesture.key", NL, "locksettings.db", NL>>,
                <<"locksettings.db", NL, "password.key", NL>>,
                <<"gesture.key", NL, "locksettings.db", NL, "password.key", NL>> }}

\* what execute_command returns on a session that has a path of adb, lines
\* 62-92 of adb_manager.py: the child completes, runs into the timeout or
\* cannot be started
ExecResults(completions) ==
    {CompletedResult(c[1], c[2], c[3]) : c \in completions}
        \cup {TimeoutResult}
        \cup {ErrorResult(e) : e \in SpawnExceptions}

\* the test of pattern_bypass.py line 63
FileFound(r) == r.success /\ ~Contains(NoSuchFile, r.error)

\* the test of the lock type with every lock type accepted
Handles_Any(t, lt) == TRUE

\* the test of the lock type: pattern_bypass.py line 36, pin_reset.py line 31
Handles(t, lt) ==
    IF t = PatternBypass THEN lt = "pattern" ELSE lt \in {"pin", "password"}

\* the call is at a point of attempt_bypass
InBypass(t, point) == tool = t /\ bpc = point

\* a caller calls attempt_bypass of a tool
CallAttemptBypass ==
    /\ bpc \in {"idle", "done"}
    /\ \E t \in {PatternBypass, PINReset} : tool' = t
    /\ bpc' = "installed"
    /\ file' = 0
    /\ result' = NoRet
    /\ lock_type' = "none"
    /\ tried' = << >>
    /\ bret' = "none"
    /\ UNCHANGED <<session_vars, reset, manager>>

\* check_adb_installed returns False, adb_manager.py lines 51-52: the call
\* prints 'ADB not available' and returns False
BypassNoAdb ==
    /\ bpc = "installed"
    /\ adb_path = None
    /\ bpc' = "done"
    /\ bret' = "false"
    /\ UNCHANGED <<tool, file, result, lock_type, tried>>
    /\ UNCHANGED <<session_vars, reset, manager>>

\* check_adb_installed returns True: the call goes on to _check_lock_type
BypassInstalled ==
    /\ bpc = "installed"
    /\ adb_path # None
    /\ bpc' = "lock_type"
    /\ file' = IF tool = PatternBypass THEN 1 ELSE 0
    /\ UNCHANGED <<tool, result, lock_type, tried, bret>>
    /\ UNCHANGED <<session_vars, reset, manager>>

\* PatternBypass._check_lock_type, one turn of the loop of lines 61-67
PatternCheckFile ==
    /\ InBypass(PatternBypass, "lock_type")
    /\ file \in DOMAIN FilesToCheck
    /\ \E r \in ExecResults(LsCompletions(FilesToCheck[file])) :
         /\ result' = r
         /\ IF FileFound(r) /\ BaseName(FilesToCheck[file]) = "gesture.key"
            THEN lock_type' = "pattern" /\ bpc' = "gate" /\ file' = file
            ELSE IF FileFound(r) /\ BaseName(FilesToCheck[file]) = "password.key"
            THEN lock_type' = "password" /\ bpc' = "gate" /\ file' = file
            ELSE lock_type' = lock_type /\ bpc' = bpc /\ file' = file + 1
    /\ UNCHANGED <<tool, tried, bret>>
    /\ UNCHANGED <<session_vars, reset, manager>>

\* PatternBypass._check_lock_type, line 69: no file told the lock type
PatternCheckEnd ==
    /\ InBypass(PatternBypass, "lock_type")
    /\ file \notin DOMAIN FilesToCheck
    /\ lock_type' = "unknown"
    /\ bpc' = "gate"
    /\ UNCHANGED <<tool, file, result, tried, bret>>
    /\ UNCHANGED <<session_vars, reset, manager>>

\* the value of PINReset._check_lock_type for a result, lines 52-58
PINLockType(r) ==
    IF r.success /\ Contains(<<"password.key">>, r.output) THEN "password"
    ELSE IF r.success /\ Contains(<<"gesture.key">>, r.output) THEN "pattern"
    ELSE "unknown"

\* PINReset._check_lock_type, lines 48-58
PINCheckLockType ==
    /\ InBypass(PINReset, "lock_type")
    /\ \E r \in ExecResults(ListingCompletions) :
         /\ result' = r
         /\ lock_type' = PINLockType(r)
    /\ bpc' = "gate"
    /\ UNCHANGED <<tool, file, tried, bret>>
    /\ UNCHANGED <<session_vars, reset, manager>>

\* the lock is not of the type the tool handles: the call returns False,
\* pattern_bypass.py lines 36-38, pin_reset.py lines 31-33
BypassWrongLock ==
    /\ bpc = "gate"
    /\ ~Handles(tool, lock_type)
    /\ bpc' = "done"
    /\ bret' = "false"
    /\ UNCHANGED <<tool, file, result, lock_type, tried>>
    /\ UNCHANGED <<session_vars, reset, manager>>

\* the lock is of the type the tool handles: the call enters the loop over
\* self.methods; PINReset prints _estimate_pin_length() on the way
BypassRightLock ==
    /\ bpc = "gate"
    /\ Handles(tool, lock_type)
    /\ bpc' = "loop"
    /\ UNCHANGED <<tool, file, result, lock_type, tried, bret>>
    /\ UNCHANGED <<session_vars, reset, manager>>

\* one turn of the loop, pattern_bypass.py lines 43-47, pin_reset.py lines
\* 39-43: the next method of the list is called; the call returns True when
\* the method does, and ends with the exception the method raises
BypassTry ==
    /\ bpc = "loop"
    /\ Len(tried) < Len(Methods(tool))
    /\ LET name == Methods(tool)[Len(tried) + 1] IN
       \E o \in MethodOutcomes(name) :
         /\ tried' = Append(tried, <<name, o>>)
         /\ bpc' = IF o = "false" THEN "loop" ELSE "done"
         /\ bret' = CASE o = "true" -> "true"
                      [] o = "false" -> bret
                      [] o = "raise" -> "raised"
    /\ UNCHANGED <<tool, file, result, lock_type>>
    /\ UNCHANGED <<session_vars, reset, manager>>

\* the list is exhausted: pattern_bypass.py lines 49-50, pin_reset.py lines
\* 45-46
BypassAllFailed ==
    /\ bpc = "loop"
    /\ Len(tried) = Len(Methods(tool))
    /\ bpc' = "done"
    /\ bret' = "false"
    /\ UNCHANGED <<tool, file, result, lock_type, tried>>
    /\ UNCHANGED <<session_vars, reset, manager>>

\* a tool is constructed on a session whose find_adb gave any of its values
BypassInit ==
    /\ \E path \in AdbPathValues : Parked(path)
    /\ NoBypass
    /\ NoReset
    /\ NoManager

BypassNext ==
    \/ CallAttemptBypass
    \/ BypassNoAdb
    \/ BypassInstalled
    \/ PatternCheckFile
    \/ PatternCheckEnd
    \/ PINCheckLockType
    \/ BypassWrongLock
    \/ BypassRightLock
    \/ BypassTry
    \/ BypassAllFailed

BypassSpec == BypassInit /\ [][BypassNext]_vars

\* the lock types the tool is for
Handled(t) == IF t = PatternBypass THEN {"pattern"} ELSE {"pin", "password"}

\* the methods the call invoked all gave false
AllFailed == \A k \in DOMAIN tried : tried[k][2] = "false"

\* C28: attempt_bypass of PatternBypass and of PINReset invokes its methods
\* in the order of the list; nothing is invoked after a method that gave
\* true, and the call then returns true; the call returns false only when
\* every method was invoked and gave false, or when nothing was invoked
\* because ADB is not installed or the lock type is not the tool's; in these
\* two cases no method is invoked.
C28_MethodsInOrderUntilSuccess ==
    tool # "none" =>
        /\ Len(tried) <= Len(Methods(tool))
        /\ \A k \in DOMAIN tried :
             /\ tried[k][1] = Methods(tool)[k]
             /\ k < Len(tried) => tried[k][2] = "false"
        /\ (tried # << >> /\ tried[Len(tried)][2] = "true") =>
               bpc = "done" /\ bret = "true"
        /\ bret = "true" => tried # << >> /\ tried[Len(tried)][2] = "true"
        /\ bret = "false" =>
               \/ Len(tried) = Len(Methods(tool)) /\ AllFailed
               \/ /\ tried = << >>
                  /\ adb_path = None \/ lock_type \notin Handled(tool) \cup {"none"}
        /\ adb_path = None => tried = << >>
        /\ lock_type \notin Handled(tool) \cup {"none"} => tried = << >>

\* PINReset returned true from its third method, after two that failed
C28_Witness ==
    /\ tool = PINReset
    /\ bpc = "done"
    /\ bret = "true"
    /\ Len(tried) = 3

-----------------------------------------------------------------------------
(* FactoryResetTool, src/factory_reset.py *)

\* the table methods of perform_reset, lines 21-27
ResetMethods ==
    ("safe" :> "_safe_reset") @@ ("recovery" :> "_recovery_reset") @@
    ("fastboot" :> "_fastboot_reset") @@ ("frp" :> "_frp_reset") @@
    ("hard" :> "_hard_reset")

\* a method name that is not in the table
NotAMethod == "not-a-real-method"

\* the phrases of lines 59 and 64
IUnderstand == "I UNDERSTAND"
ConfirmReset == "CONFIRM RESET"

\* what the user types at a prompt of the warning
Responses == {IUnderstand, ConfirmReset, "i understand", ""}

\* how a call of a reset method can end. Each method reads the console,
\* which can be at its end; _fastboot_reset uses the name subprocess at line
\* 159, which the module does not import
ResetOutcomes(name) ==
    IF name = "_fastboot_reset" THEN {"raised"} ELSE {"true", "false", "raised"}

\* a caller calls perform_reset(method)
CallPerformReset ==
    /\ rpc \in {"idle", "done"}
    /\ \E mt \in DOMAIN ResetMethods \cup {NotAMethod} : method' = mt
    /\ rpc' = "check"
    /\ typed' = << >>
    /\ cancelled' = FALSE
    /\ ran' = "none"
    /\ rret' = "none"
    /\ UNCHANGED <<warning_shown, confirmed>>
    /\ UNCHANGED <<session_vars, bypass, manager>>

\* line 17, warning_shown is set: the warning is skipped
ResetSkipWarning ==
    /\ rpc = "check"
    /\ warning_shown
    /\ rpc' = "dispatch"
    /\ UNCHANGED <<warning_shown, method, typed, cancelled, ran, confirmed, rret>>
    /\ UNCHANGED <<session_vars, bypass, manager>>

\* lines 17-18 and 37-57: _show_warning is called and prints the warning
ShowWarning ==
    /\ rpc = "check"
    /\ ~warning_shown
    /\ rpc' = "first"
    /\ UNCHANGED <<warning_shown, method, typed, cancelled, ran, confirmed, rret>>
    /\ UNCHANGED <<session_vars, bypass, manager>>

\* _show_warning, lines 59-62: the first prompt
WarnFirst ==
    /\ rpc = "first"
    /\ \E response \in Responses :
         /\ typed' = Append(typed, response)
         /\ cancelled' = (response # IUnderstand)
         /\ rpc' = IF response # IUnderstand THEN "shown" ELSE "second"
    /\ UNCHANGED <<warning_shown, method, ran, confirmed, rret>>
    /\ UNCHANGED <<session_vars, bypass, manager>>

\* _show_warning, lines 64-69: the second prompt
WarnSecond ==
    /\ rpc = "second"
    /\ \E response \in Responses :
         /\ typed' = Append(typed, response)
         /\ cancelled' = (response # ConfirmReset)
         /\ confirmed' = (confirmed \/ response = ConfirmReset)
    /\ rpc' = "shown"
    /\ UNCHANGED <<warning_shown, method, ran, rret>>
    /\ UNCHANGED <<session_vars, bypass, manager>>

\* a prompt of the warning finds the console at its end: input() raises
\* EOFError, which perform_reset lets through
WarnEOF ==
    /\ rpc \in {"first", "second"}
    /\ rpc' = "done"
    /\ rret' = "raised"
    /\ UNCHANGED <<warning_shown, method, typed, cancelled, ran, confirmed>>
    /\ UNCHANGED <<session_vars, bypass, manager>>

\* lines 18-19: _show_warning has returned; what it returned is dropped, and
\* warning_shown is set
WarningShown ==
    /\ rpc = "shown"
    /\ warning_shown' = TRUE
    /\ rpc' = "dispatch"
    /\ UNCHANGED <<method, typed, cancelled, ran, confirmed, rret>>
    /\ UNCHANGED <<session_vars, bypass, manager>>

\* lines 29-30: the method of the table is called, and the call returns what
\* it returns
ResetRun ==
    /\ rpc = "dispatch"
    /\ method \in DOMAIN ResetMethods
    /\ ran' = ResetMethods[method]
    /\ \E o \in ResetOutcomes(ResetMethods[method]) : rret' = o
    /\ rpc' = "done"
    /\ UNCHANGED <<warning_shown, method, typed, cancelled, confirmed>>
    /\ UNCHANGED <<session_vars, bypass, manager>>

\* lines 31-33: the method is not in the table
ResetUnknown ==
    /\ rpc = "dispatch"
    /\ method \notin DOMAIN ResetMethods
    /\ rret' = "false"
    /\ rpc' = "done"
    /\ UNCHANGED <<warning_shown, method, typed, cancelled, ran, confirmed>>
    /\ UNCHANGED <<session_vars, bypass, manager>>

ResetInit ==
    /\ \E path \in AdbPathValues : Parked(path)
    /\ NoBypass
    /\ NoReset
    /\ NoManager

ResetNext ==
    \/ CallPerformReset
    \/ ResetSkipWarning
    \/ ShowWarning
    \/ WarnFirst
    \/ WarnSecond
    \/ WarnEOF
    \/ WarningShown
    \/ ResetRun
    \/ ResetUnknown

ResetSpec == ResetInit /\ [][ResetNext]_vars

\* C29: perform_reset runs a reset method only when the user has typed both
\* phrases at the warning of the tool; a call whose warning was declined
\* (it printed "Reset cancelled.") runs no reset method, and the tool goes on
\* asking until the warning was confirmed.
C29_ResetOnlyAfterConfirmation ==
    /\ ran # "none" => confirmed
    /\ cancelled => ran = "none"
    /\ warning_shown => confirmed

-----------------------------------------------------------------------------
(* ConfigManager, src/config_manager.py. Dictionaries are objects of the   *)
(* heap: a dictionary is named by its index, and two names of one index     *)
(* are one dictionary. The timestamps 'created' and 'updated' are left out. *)

\* most dictionaries the heap holds
MaxObjects == 9

\* a value of a dictionary: a scalar, written as its JSON text, or a
\* dictionary of the heap
Scalar(text) == <<"scalar", text>>
Dict(id) == <<"dict", id>>
IsDict(v) == v[1] = "dict"

\* {}
EmptyDict == << >>

\* the keys of the dictionaries, in one order of iteration
KeyOrder == <<"version", "adb", "ui", "timeout", "language", "extra", "k">>

\* _get_default_config, lines 23-63, on the keys version, adb.timeout and
\* ui.language: the dictionaries it builds, the outer one first
DefaultObjects ==
    << ("version" :> Scalar("2.0")) @@ ("adb" :> Dict(2)) @@ ("ui" :> Dict(3)),
       ("timeout" :> Scalar("30")),
       ("language" :> Scalar("en")) >>

\* documents config.json can hold, as the dictionaries json.load builds for
\* them, the outer one first: {}, {"version": "1.0"},
\* {"adb": {"timeout": 60}}, {"adb": {"timeout": 60}, "ui": {"language": "fr"}}
\* and {"extra": {"k": "v"}}
Documents ==
    { << EmptyDict >>,
      << ("version" :> Scalar("1.0")) >>,
      << ("adb" :> Dict(2)), ("timeout" :> Scalar("60")) >>,
      << ("adb" :> Dict(2)) @@ ("ui" :> Dict(3)),
         ("timeout" :> Scalar("60")), ("language" :> Scalar("fr")) >>,
      << ("extra" :> Dict(2)), ("k" :> Scalar("v")) >> }

\* the keys set is called with, split at the dots (line 157), and the values
SetKeys == { <<"version">>, <<"adb", "timeout">>, <<"ui", "language">>,
             <<"extra", "k">> }
SetValues == {"changed"}

\* a dictionary placed in the heap off places after where it was built
Moved(d, off) ==
    [key \in DOMAIN d |-> IF IsDict(d[key]) THEN Dict(d[key][2] + off) ELSE d[key]]

\* json.load, line 97: the dictionaries of the document are new objects
Loaded(h, doc) == h \o [n \in DOMAIN doc |-> Moved(doc[n], Len(h))]

\* d[key] = v
Store(d, key, v) == (key :> v) @@ d

\* dict.copy(): a new dictionary with the same values under the same keys
Copy(h, id) == Append(h, h[id])

RECURSIVE MergeConfigs(_, _, _)
RECURSIVE MergeItems(_, _, _, _)

\* the loop of _merge_configs, lines 131-138, from the n-th key on: the heap
\* after it. merged and loaded name dictionaries of the heap h
MergeItems(h, merged, loaded, n) ==
    IF n > Len(KeyOrder) THEN h
    ELSE LET key == KeyOrder[n] IN
         IF key \notin DOMAIN h[loaded] THEN MergeItems(h, merged, loaded, n + 1)
         ELSE LET value == h[loaded][key] IN
              IF /\ key \in DOMAIN h[merged]
                 /\ IsDict(value)
                 /\ IsDict(h[merged][key])
              THEN LET sub == MergeConfigs(h, h[merged][key][2], value[2])
                       h2 == [sub[1] EXCEPT
                                 ![merged] = Store(@, key, Dict(sub[2]))]
                   IN  MergeItems(h2, merged, loaded, n + 1)
              ELSE MergeItems([h EXCEPT ![merged] = Store(@, key, value)],
                              merged, loaded, n + 1)

\* _merge_configs, lines 127-140: the heap after the call and the dictionary
\* it returns
MergeConfigs(h, default, loaded) ==
    LET merged == Len(h) + 1
    IN  <<MergeItems(Copy(h, default), merged, loaded, 1), merged>>

RECURSIVE SetIn(_, _, _, _)
\* set, lines 158-167, from the dictionary id on: the heap after the value
\* was stored under the keys
SetIn(h, id, keys, value) ==
    IF Len(keys) = 1 THEN [h EXCEPT ![id] = Store(@, keys[1], Scalar(value))]
    ELSE IF keys[1] \notin DOMAIN h[id]
    THEN LET new == Len(h) + 1
             h1 == Append([h EXCEPT ![id] = Store(@, keys[1], Dict(new))],
                          EmptyDict)
         IN  SetIn(h1, new, Tail(keys), value)
    ELSE SetIn(h, h[id][keys[1]][2], Tail(keys), value)

\* the keys set stores under lead through dictionaries
Navigable(h, id, keys) ==
    IF Len(keys) = 1 \/ keys[1] \notin DOMAIN h[id]
    THEN TRUE
    ELSE IsDict(h[id][keys[1]])

\* what save_config returns, lines 112-125: whether the file was written
SaveResults == {"true", "false"}

\* __init__, lines 12-21, with no config.json (lines 107-110) or with one
\* that cannot be read (lines 104-106): load_config returns default_config
ManagerCreate ==
    /\ cpc = "new"
    /\ heap' = DefaultObjects
    /\ default_config' = 1
    /\ config' = 1
    /\ cpc' = "__init__"
    /\ UNCHANGED cret
    /\ UNCHANGED <<session_vars, bypass, reset>>

\* __init__, lines 12-21, with a config.json that can be read: load_config
\* returns the defaults merged with the document, lines 94-103
ManagerLoad ==
    /\ cpc = "new"
    /\ \E doc \in Documents :
         LET h1 == Loaded(DefaultObjects, doc)
             m == MergeConfigs(h1, 1, Len(DefaultObjects) + 1)
         IN  /\ heap' = m[1]
             /\ config' = m[2]
    /\ default_config' = 1
    /\ cpc' = "__init__"
    /\ UNCHANGED cret
    /\ UNCHANGED <<session_vars, bypass, reset>>

\* set(key, value), lines 155-170
ManagerSet ==
    /\ cpc # "new"
    /\ \E keys \in SetKeys, value \in SetValues :
         /\ Navigable(heap, config, keys)
         /\ Len(heap) < MaxObjects
         /\ heap' = SetIn(heap, config, keys, value)
    /\ \E saved \in SaveResults : cret' = saved
    /\ cpc' = "set"
    /\ UNCHANGED <<default_config, config>>
    /\ UNCHANGED <<session_vars, bypass, reset>>

\* reset_to_defaults, lines 172-176
ResetToDefaults ==
    /\ cpc # "new"
    /\ Len(heap) < MaxObjects
    /\ heap' = Copy(heap, default_config)
    /\ config' = Len(heap) + 1
    /\ \E saved \in SaveResults : cret' = saved
    /\ cpc' = "reset_to_defaults"
    /\ UNCHANGED default_config
    /\ UNCHANGED <<session_vars, bypass, reset>>

ManagerInit ==
    /\ \E path \in AdbPathValues : Parked(path)
    /\ NoBypass
    /\ NoReset
    /\ NoManager

ManagerNext ==
    \/ ManagerCreate
    \/ ManagerLoad
    \/ ManagerSet
    \/ ResetToDefaults

ManagerSpec == ManagerInit /\ [][ManagerNext]_vars

RECURSIVE Values(_, _, _)
\* every value of a dictionary of the heap, each with the keys that lead to it
Values(h, id, prefix) ==
    UNION { IF IsDict(h[id][key])
            THEN {<<prefix \o <<key>>, "{}">>}
                     \cup Values(h, h[id][key][2], prefix \o <<key>>)
            ELSE {<<prefix \o <<key>>, h[id][key][2]>>} : key \in DOMAIN h[id] }

\* the default configuration as __init__ computed it
DefaultsAtConstruction == Values(DefaultObjects, 1, << >>)

\* C30: when reset_to_defaults has run, every value of the configuration is
\* the value the default configuration had at construction, whatever set
\* calls came before and whether a file was loaded or not.
C30_ResetRestoresDefaults ==
    cpc = "reset_to_defaults" =>
        Values(heap, config, << >>) = DefaultsAtConstruction

====
